---- MODULE Spec2Model ----
(***************************************************************************)
(* Data-to-video converter (app.py): the byte -> RGB frame encoder, the    *)
(* pixel scaler, the resolution / frame-rate / duration parameter model,   *)
(* the output path rule and the DataToVideoApp event handlers; and the     *)
(* drop parser and input selection of TomatoApp (glitch_hub/tomato_gui.py).*)
(*                                                                         *)
(* Representation.  A bytes object is a sequence of integers 0..255.  A    *)
(* numpy array of shape (H, W, 3) is a sequence of H rows, each a sequence *)
(* of W pixels, each a sequence of 3 channel values (indices start at 1    *)
(* here and at 0 in the source).  A str / Path is a sequence of one-       *)
(* character strings.  A float is an exact rational <<num, den>> in lowest *)
(* terms with den > 0; every float the model handles is a short decimal or *)
(* a quotient of small integers, far from any rounding boundary.           *)
(***************************************************************************)
EXTENDS Integers, Sequences, FiniteSets, TLC

VARIABLES
    aspect_ratio_var,    \* tk.StringVar: text of the aspect ratio combobox
    base_size_var,       \* tk.StringVar: text of the base width combobox
    fps_var,             \* tk.StringVar: text of the frame rate combobox
    pixel_scale_var,     \* tk.StringVar: text of the pixel scale combobox
    resolution_var,      \* tk.StringVar: the resolution line, as its fields
    duration_var,        \* tk.StringVar: the duration line, as its fields
    selected_file_path,  \* Path | None
    status_var,          \* tk.StringVar: the status line
    run_button,          \* state of the Run button: "disabled" | "normal"
    disk,                \* the file system: path -> file or NoFile
    log,                 \* what the last event handler called outside itself
    ret,                 \* the value returned by the last direct method call
    cv,                  \* the frame of a direct convert_file_to_video call
    tomato,              \* TomatoApp (tomato_gui.py): its Tk variables and Run button
    drop                 \* the drop event the two windows are given

vars == <<aspect_ratio_var, base_size_var, fps_var, pixel_scale_var,
          resolution_var, duration_var, selected_file_path, status_var,
          run_button, disk, log, ret, cv, tomato, drop>>

tkvars == <<aspect_ratio_var, base_size_var, fps_var, pixel_scale_var>>

appvars == <<resolution_var, duration_var, selected_file_path, status_var,
             run_button, log>>

dropvars == <<tomato, drop>>

(***************************************************************************)
(* Bounds of the model.                                                    *)
(***************************************************************************)
MaxLen == 7      \* longest payload of a direct conversion, in bytes
MaxWidth == 2    \* widest frame of a direct conversion
MaxHeight == 2   \* tallest frame of a direct conversion
MaxScale == 2    \* largest pixel scale of a direct conversion

ByteVals == {0, 255}

(***************************************************************************)
(* Arithmetic helpers.                                                     *)
(***************************************************************************)
Min(a, b) == IF a <= b THEN a ELSE b

Max(a, b) == IF a >= b THEN a ELSE b

Abs(a) == IF a < 0 THEN 0 - a ELSE a

\* Euclid's algorithm, as a function so that each step works on values
GcdOf[a \in Nat, b \in Nat] == IF b = 0 THEN a ELSE GcdOf[b, a % b]

Gcd(a, b) == GcdOf[a, b]

\* the rational n/d (d > 0) in lowest terms
RatOf[n \in Int, d \in Nat] == <<n \div Gcd(Abs(n), d), d \div Gcd(Abs(n), d)>>

Rat(n, d) == RatOf[n, d]

RatLess(x, y) == x[1] * y[2] < y[1] * x[2]

\* integer / rational
IntDivRat(n, x) == Rat(n * x[2], x[1])

(***************************************************************************)
(* Python and numpy primitives used by the encoder.                        *)
(***************************************************************************)
\* range(start, stop, step) with step > 0, as the sequence of its values
RECURSIVE Range(_, _, _)
Range(start, stop, step) ==
    IF start >= stop THEN <<>>
    ELSE <<start>> \o Range(start + step, stop, step)

\* data[lo : hi] for 0 <= lo <= hi: the slice is cut at the end of data
Slice(data, lo, hi) == SubSeq(data, lo + 1, Min(hi, Len(data)))

\* bytes(n): n zero bytes
ZeroBytes(n) == [i \in 1..n |-> 0]

\* the consecutive blocks of n elements of a buffer, from element done + 1 on;
\* the length of the buffer is a multiple of n
RECURSIVE BlocksFrom(_, _, _)
BlocksFrom(buf, n, done) ==
    IF done >= Len(buf) THEN <<>>
    ELSE <<SubSeq(buf, done + 1, done + n)>> \o BlocksFrom(buf, n, done + n)

Blocks(buf, n) == BlocksFrom(buf, n, 0)

\* a reshape that fills columns first (Fortran order of the first two axes)
ReshapeColumnsFirst(chunk, height, width) ==
    [r \in 1..height |-> [c \in 1..width |-> Blocks(chunk, 3)[(c - 1) * height + r]]]

\* np.frombuffer(chunk, dtype=np.uint8).reshape((height, width, 3)): C order,
\* the last axis varies fastest
Reshape(chunk, height, width) ==
    [r \in 1..height |-> Blocks(Blocks(chunk, width * 3)[r], 3)]

\* np.zeros((height, width, 3), dtype=np.uint8)
Zeros(height, width) ==
    [r \in 1..height |-> [c \in 1..width |-> <<0, 0, 0>>]]

\* np.repeat(a, n, axis=0): every element of the first axis n times in a row
RECURSIVE Repeat0(_, _)
Repeat0(a, n) ==
    IF a = <<>> THEN <<>>
    ELSE [i \in 1..n |-> Head(a)] \o Repeat0(Tail(a), n)

\* np.repeat(a, n, axis=1): the same inside every element of the first axis
Repeat1(a, n) == [r \in 1..Len(a) |-> Repeat0(a[r], n)]

(***************************************************************************)
(* bytes_to_frames (app.py 30-54).                                         *)
(***************************************************************************)
\* lines 45-48: the frame cut at one offset of the loop
FrameAt(data, offset, width, height) ==
    LET frame_size == width * height * 3
        chunk == Slice(data, offset, offset + frame_size)
        padded == IF Len(chunk) < frame_size
                  THEN chunk \o ZeroBytes(frame_size - Len(chunk))
                  ELSE chunk
    IN  Reshape(padded, height, width)

\* the loop running to len(data) inclusive
bytes_to_frames_inclusive(data, width, height) ==
    LET frame_size == width * height * 3
        offsets == Range(0, Len(data) + 1, frame_size)
    IN  [k \in 1..Len(offsets) |-> FrameAt(data, offsets[k], width, height)]

bytes_to_frames(data, width, height) ==
    LET frame_size == width * height * 3
        offsets == Range(0, Len(data), frame_size)
        frames == [k \in 1..Len(offsets) |-> FrameAt(data, offsets[k], width, height)]
    IN  IF frames = <<>> THEN <<Zeros(height, width)>> ELSE frames

\* both repeats along axis 0
ScaleFramesRowsTwice(frames, pixel_scale) ==
    IF pixel_scale > 1
    THEN [k \in 1..Len(frames) |-> Repeat0(Repeat0(frames[k], pixel_scale), pixel_scale)]
    ELSE frames

\* lines 66-71: the frames handed on to the clip
ScaleFrames(frames, pixel_scale) ==
    IF pixel_scale > 1
    THEN [k \in 1..Len(frames) |-> Repeat1(Repeat0(frames[k], pixel_scale), pixel_scale)]
    ELSE frames

(***************************************************************************)
(* Text <-> number conversions (str, int, float, round).                   *)
(***************************************************************************)
Digits == <<"0", "1", "2", "3", "4", "5", "6", "7", "8", "9">>

IsDigit(ch) == \E i \in 1..10 : Digits[i] = ch

DigitVal(ch) == (CHOOSE i \in 1..10 : Digits[i] = ch) - 1

RECURSIVE Pow10(_)
Pow10(k) == IF k = 0 THEN 1 ELSE 10 * Pow10(k - 1)

\* the number written by a sequence of digits
RECURSIVE DigitsValue(_, _)
DigitsValue(ds, n) ==
    IF n = 0 THEN 0 ELSE 10 * DigitsValue(ds, n - 1) + DigitVal(ds[n])

DigitsToInt(ds) == DigitsValue(ds, Len(ds))

\* str(n) for an int n >= 0
RECURSIVE Str(_)
Str(n) == IF n < 10 THEN <<Digits[n + 1]>> ELSE Str(n \div 10) \o <<Digits[(n % 10) + 1]>>

\* the digits after the point of the fraction n/d, 0 <= n < d, d a divisor of
\* a power of ten
RECURSIVE FracDigits(_, _)
FracDigits(n, d) ==
    IF n = 0 THEN <<>>
    ELSE <<Digits[((10 * n) \div d) + 1]>> \o FracDigits((10 * n) % d, d)

\* str(x) for an entry of a menu list: an int prints as its digits, a float
\* with a short decimal expansion as integer part, point, fraction digits
StrNumber(x) ==
    IF x[2] = 1 THEN Str(x[1])
    ELSE Str(x[1] \div x[2]) \o <<".">> \o FracDigits(x[1] % x[2], x[2])

ValueError == [ok |-> FALSE]

Parsed(v) == [ok |-> TRUE, val |-> v]

\* int(text): an optional minus sign and at least one digit, or ValueError
ParseInt(text) ==
    LET neg == text # <<>> /\ Head(text) = "-"
        body == IF neg THEN Tail(text) ELSE text
    IN  IF body # <<>> /\ \A i \in 1..Len(body) : IsDigit(body[i])
        THEN Parsed(IF neg THEN 0 - DigitsToInt(body) ELSE DigitsToInt(body))
        ELSE ValueError

\* float(text): an optional minus sign, digits with at most one point and at
\* least one digit, or ValueError (exponents, inf, nan, blanks and underscores
\* are not among the texts of the model)
ParseFloat(text) ==
    LET neg == text # <<>> /\ Head(text) = "-"
        body == IF neg THEN Tail(text) ELSE text
        dots == {i \in 1..Len(body) : body[i] = "."}
        ds == SelectSeq(body, IsDigit)
        places == IF dots = {} THEN 0 ELSE Len(body) - (CHOOSE i \in dots : TRUE)
        wellformed == /\ \A i \in 1..Len(body) : IsDigit(body[i]) \/ body[i] = "."
                      /\ Cardinality(dots) <= 1
                      /\ ds # <<>>
    IN  IF wellformed
        THEN Parsed(Rat(IF neg THEN 0 - DigitsToInt(ds) ELSE DigitsToInt(ds), Pow10(places)))
        ELSE ValueError

\* round(n/d) for n >= 0: to the nearest integer, a tie to the even one
RoundOf[n \in Nat, d \in Nat] ==
    LET q == n \div d
        r == n % d
    IN  IF 2 * r < d THEN q
        ELSE IF 2 * r > d THEN q + 1
        ELSE IF q % 2 = 0 THEN q ELSE q + 1

\* int(x) in place of round(x): the fraction is cut off
RoundDown(x) == x[1] \div x[2]

\* round(x) for a float x >= 0
Round(x) == RoundOf[x]

\* math.ceil(a / b) for ints a >= 0, b > 0
CeilOf[a \in Nat, b \in Nat] == IF a % b = 0 THEN a \div b ELSE (a \div b) + 1

Ceil(a, b) == CeilOf[a, b]

(***************************************************************************)
(* Module constants (app.py 18-27).                                        *)
(***************************************************************************)
FPS == 1

AspectNames == <<"1:1", "4:3", "16:9", "9:16">>

ASPECT_RATIOS(name) ==
    CASE name = "1:1" -> <<1, 1>>
      [] name = "4:3" -> <<4, 3>>
      [] name = "16:9" -> <<16, 9>>
      [] name = "9:16" -> <<9, 16>>

BASE_SIZES == <<128, 256, 512, 1024>>

PIXEL_SCALES == <<1, 2, 3, 4>>

FPS_CHOICES == <<Rat(1, 4), Rat(1, 2), Rat(1, 1), Rat(2, 1), Rat(5, 1), Rat(10, 1)>>

\* the lower clamp of _current_fps, 0.01 (line 266)
MinFps == Rat(1, 100)

(***************************************************************************)
(* Path operations (pathlib) on a path given as its characters.            *)
(***************************************************************************)
PositionsOf(s, ch) == {i \in 1..Len(s) : s[i] = ch}

LastOf(S) == CHOOSE i \in S : \A j \in S : j <= i

\* the characters up to and including the last separator
PathDir(p) ==
    IF PositionsOf(p, "/") = {} THEN <<>>
    ELSE SubSeq(p, 1, LastOf(PositionsOf(p, "/")))

\* Path.name: the characters after the last separator
PathName(p) == SubSeq(p, Len(PathDir(p)) + 1, Len(p))

\* Path.suffix: from the last point of the name on, unless that point is the
\* first or the last character of the name
PathSuffix(p) ==
    LET name == PathName(p)
        dots == PositionsOf(name, ".")
    IN  IF dots # {} /\ 1 < LastOf(dots) /\ LastOf(dots) < Len(name)
        THEN SubSeq(name, LastOf(dots), Len(name))
        ELSE <<>>

\* Path.with_suffix(""): the path without the suffix of its name
WithoutSuffix(p) == SubSeq(p, 1, Len(p) - Len(PathSuffix(p)))

\* Path.with_name(name): the same directory, another name
WithName(p, name) == PathDir(p) \o name

DatamoshTag == <<"_", "d", "a", "t", "a", "m", "o", "s", "h", ".", "m", "p", "4">>

\* the tag appended to the whole name, suffix included
OutputPathKeepSuffix(file_path) == WithName(file_path, PathName(file_path) \o DatamoshTag)

\* lines 75-76 of convert_file_to_video
OutputPath(file_path) ==
    LET output_path == WithoutSuffix(file_path)
    IN  WithName(output_path, PathName(output_path) \o DatamoshTag)

(***************************************************************************)
(* Values of the state.                                                    *)
(***************************************************************************)
None == <<>>

Some(x) == <<x>>

\* no file at a path
NoFile == [size |-> -1, data |-> <<>>, video |-> FALSE]

\* a regular file of n bytes whose content the model does not look at
OpaqueFile(n) == [size |-> n, data |-> <<>>, video |-> FALSE]

\* a regular file holding the bytes data
DataFile(data) == [size |-> Len(data), data |-> data, video |-> FALSE]

\* a file left by the video writer; finished tells a whole one from a partial one
VideoFile(finished) == [size |-> IF finished THEN 1 ELSE 0, data |-> <<>>, video |-> TRUE]

\* Path.exists()
Exists(p) == p \in DOMAIN disk /\ disk[p] # NoFile

\* "Estimated duration: —" (lines 100 and 286)
Dash == [frames |-> 0, seconds |-> <<0, 1>>, fps |-> <<0, 1>>]

Status(kind, arg) == [kind |-> kind, arg |-> arg]

InitialStatus == Status("Drop a file or use the Add File button", <<>>)

\* the log of an event handler that has called nothing yet
NoCalls ==
    [dialogs |-> <<>>, opened |-> <<>>, encoded |-> 0, written |-> <<>>, raised |-> "none"]

\* the text of a dialog: its fixed words and the path or exception it names
Message(text, about) == [text |-> text, about |-> about]

Dialog(kind, title, message) == [kind |-> kind, title |-> title, message |-> message]

NoRet == [fn |-> "", value |-> <<>>]

IdleCall == [pc |-> "idle"]

\* TomatoApp.__init__ (tomato_gui.py 83-96): "No file selected" (None here,
\* "Input: <path>" is Some(path)), "Output: (auto)" (None here, "Output:
\* <path>" is Some(path)), the Run button disabled by _update_run_state, and
\* the dialogs the last handler has shown
TomatoStart ==
    [selected_path_var |-> None, output_path_var |-> None,
     run_button |-> "disabled", dialogs |-> <<>>]

\* no drop event
NoDrop == [pc |-> "none"]

(***************************************************************************)
(* The parameter model of DataToVideoApp (app.py 256-297).                 *)
(***************************************************************************)
(* The methods read the four Tk variables of the object; self is the record  *)
(* of their texts at the time of the call.                                 *)
Elems(s) == {s[i] : i \in 1..Len(s)}

\* the Tk variables as they are
Self ==
    [aspect_ratio_var |-> aspect_ratio_var, base_size_var |-> base_size_var,
     fps_var |-> fps_var, pixel_scale_var |-> pixel_scale_var]

\* the two ratio terms taken the other way round
_current_resolution_swapped(self) ==
    LET aspect == self.aspect_ratio_var
        ratio == IF aspect \in Elems(AspectNames) THEN ASPECT_RATIOS(aspect) ELSE <<1, 1>>
        base_width == ParseInt(self.base_size_var).val
    IN  <<base_width, Max(1, Round(Rat(base_width * ratio[1], ratio[2])))>>

_current_resolution(self) ==
    LET aspect == self.aspect_ratio_var
        ratio == IF aspect \in Elems(AspectNames) THEN ASPECT_RATIOS(aspect) ELSE <<1, 1>>
        base_width == ParseInt(self.base_size_var).val
        computed_height == Max(1, Round(Rat(base_width * ratio[2], ratio[1])))
    IN  <<base_width, computed_height>>

\* the parsed value without the lower clamp
_current_fps_unclamped(self) ==
    LET fps == ParseFloat(self.fps_var)
    IN  IF fps.ok THEN fps.val ELSE Rat(FPS, 1)

_current_fps(self) ==
    LET fps == ParseFloat(self.fps_var)
    IN  IF fps.ok
        THEN IF RatLess(MinFps, fps.val) THEN fps.val ELSE MinFps
        ELSE Rat(FPS, 1)

_current_pixel_scale(self) ==
    LET scale == ParseInt(self.pixel_scale_var)
    IN  IF scale.ok THEN Max(1, scale.val) ELSE 1

\* lines 278-282: the fields of the resolution line
ResolutionDisplay(self) ==
    LET res == _current_resolution(self)
        scale == _current_pixel_scale(self)
    IN  [width |-> res[1], height |-> res[2], aspect |-> self.aspect_ratio_var,
         scale |-> scale, out_width |-> res[1] * scale, out_height |-> res[2] * scale]

\* the estimate dividing by the module constant FPS
DurationEstimateGlobalFps(file_size, width, height, fps) ==
    LET frames == Max(1, Ceil(file_size, width * height * 3))
    IN  [frames |-> frames, seconds |-> IntDivRat(frames, Rat(FPS, 1)), fps |-> fps]

\* lines 290-294: the estimate for a file of file_size bytes
DurationEstimate(file_size, width, height, fps) ==
    LET frame_size == width * height * 3
        frames == Max(1, Ceil(file_size, frame_size))
        seconds == IntDivRat(frames, fps)
    IN  [frames |-> frames, seconds |-> seconds, fps |-> fps]

\* lines 284-297: the duration line _update_duration_hint sets for a selection
DurationHint(self, selected) ==
    IF selected = None \/ ~Exists(selected[1]) THEN Dash
    ELSE LET res == _current_resolution(self)
         IN  DurationEstimate(disk[selected[1]].size, res[1], res[2], _current_fps(self))

(***************************************************************************)
(* The drop parser of DataToVideoApp._on_drop (app.py 217-243).            *)
(***************************************************************************)
\* str.strip() for a text whose only white space is the blank
RECURSIVE Strip(_)
Strip(s) ==
    IF s = <<>> THEN s
    ELSE IF Head(s) = " " THEN Strip(Tail(s))
    ELSE IF s[Len(s)] = " " THEN Strip(SubSeq(s, 1, Len(s) - 1))
    ELSE s

\* lines 223-241: the loop over the characters, then the last token
RECURSIVE ScanDrop(_, _, _, _)
ScanDrop(rest, paths, current, in_brace) ==
    IF rest = <<>>
    THEN IF current # <<>> THEN Append(paths, current) ELSE paths
    ELSE LET ch == Head(rest)
         IN  IF ch = "{" THEN ScanDrop(Tail(rest), paths, <<>>, TRUE)
             ELSE IF ch = "}"
             THEN ScanDrop(Tail(rest),
                           IF current # <<>> THEN Append(paths, current) ELSE paths,
                           <<>>, FALSE)
             ELSE IF ch = " " /\ ~in_brace
             THEN ScanDrop(Tail(rest),
                           IF current # <<>> THEN Append(paths, current) ELSE paths,
                           <<>>, in_brace)
             ELSE ScanDrop(Tail(rest), paths, Append(current, ch), in_brace)

DropPaths(data) == ScanDrop(Strip(data), <<>>, <<>>, FALSE)

\* Path(text) for a non-empty text: separators at the end are dropped
RECURSIVE PathOf(_)
PathOf(text) ==
    IF Len(text) > 1 /\ text[Len(text)] = "/"
    THEN PathOf(SubSeq(text, 1, Len(text) - 1))
    ELSE text

(***************************************************************************)
(* The files, texts and faults the events of the model draw from.          *)
(***************************************************************************)
ReportBin == <<"/", "d", "/", "r", "e", "p", "o", "r", "t", ".", "b", "i", "n">>

SpacedName == <<"/", "d", "/", "a", " ", "b">>

\* the paths at which the model keeps a file, absent or present; every other
\* path, SpacedName among them, never has one
AppPaths == {ReportBin}

\* sizes of the files of the app: empty, and one byte more than one 128x72 frame
AppSizes == {0, 27649}

\* what the user can type into the frame rate box besides the menu texts
TypedFps == {<<"0">>, <<"a", "b", "c">>}

\* the texts of the menus (lines 124, 135, 146, 156)
FpsMenuTexts == {StrNumber(FPS_CHOICES[i]) : i \in 1..Len(FPS_CHOICES)}

BaseMenuTexts == {Str(BASE_SIZES[i]) : i \in 1..Len(BASE_SIZES)}

ScaleMenuTexts == {Str(PIXEL_SCALES[i]) : i \in 1..Len(PIXEL_SCALES)}

\* the menu entries the user of the model picks: the entry of the start and
\* one other of each menu
PickedAspects == {"16:9", "1:1"}

PickedBases == {Str(BASE_SIZES[1]), Str(BASE_SIZES[2])}

PickedFps == {StrNumber(FPS_CHOICES[2]), StrNumber(FPS_CHOICES[3])}

PickedScales == {Str(PIXEL_SCALES[1]), Str(PIXEL_SCALES[2])}

\* event.data of the drops of the model
DropTexts ==
    { ReportBin,
      <<"{">> \o SpacedName \o <<"}", " ">> \o ReportBin,
      <<" ">>,
      <<"{", "}">> }

\* where a conversion can raise: nowhere, at file_path.open, at
\* ImageSequenceClip, at write_videofile
Faults == {"none", "open", "clip", "write"}

(***************************************************************************)
(* convert_file_to_video (app.py 57-86) as DataToVideoApp._convert sees    *)
(* it: what it opens, encodes and hands to the writer, the file it leaves, *)
(* and whether it returns or raises.                                       *)
(***************************************************************************)
ConvertOutcome(file_path, width, height, fps, pixel_scale, fault, leaves_partial) ==
    LET output_path == OutputPath(file_path)
        call == [path |-> output_path, fps |-> fps,
                 width |-> width, height |-> height, pixel_scale |-> pixel_scale]
    IN  [raised |-> fault # "none",
         exc |-> fault,
         output_path |-> output_path,
         opened |-> <<file_path>>,
         encoded |-> IF fault = "open" THEN 0 ELSE 1,
         written |-> IF fault \in {"open", "clip"} THEN <<>> ELSE <<call>>,
         left |-> IF fault = "none" THEN Some(VideoFile(TRUE))
                  ELSE IF fault = "write" /\ leaves_partial THEN Some(VideoFile(FALSE))
                  ELSE None]

(***************************************************************************)
(* DataToVideoApp: construction and event handlers.                        *)
(***************************************************************************)
\* __init__ (lines 90-107); none of the files of the model exists yet
Init ==
    /\ aspect_ratio_var = "16:9"
    /\ base_size_var = Str(BASE_SIZES[2])
    /\ fps_var = Str(FPS)
    /\ pixel_scale_var = Str(PIXEL_SCALES[1])
    /\ selected_file_path = None
    /\ duration_var = Dash
    /\ status_var = InitialStatus
    /\ run_button = "disabled"
    /\ disk \in [AppPaths \cup {OutputPath(p) : p \in AppPaths} -> {NoFile}]
    /\ resolution_var = ResolutionDisplay(Self)
    /\ log = NoCalls
    /\ ret = NoRet
    /\ tomato = TomatoStart
    /\ drop = NoDrop
    /\ cv = IdleCall

\* the selection without line 213 / 250: the Run button is left as it is
SelectButtonKept(path) ==
    /\ selected_file_path' = Some(path)
    /\ duration_var' = DurationHint(Self, Some(path))
    /\ status_var' = Status("Selected", PathName(path))
    /\ run_button' = run_button

\* lines 209-213 and 246-250: a path becomes the selection
Select(path) ==
    /\ selected_file_path' = Some(path)
    /\ duration_var' = DurationHint(Self, Some(path))
    /\ status_var' = Status("Selected", PathName(path))
    /\ run_button' = "normal"

\* _on_add_file: the dialog returns an existing file, or "" when cancelled
OnAddFile ==
    \E file_path \in {<<>>} \cup {p \in AppPaths : Exists(p)} :
        /\ IF file_path # <<>>
           THEN Select(PathOf(file_path))
           ELSE UNCHANGED <<selected_file_path, duration_var, status_var, run_button>>
        /\ log' = NoCalls
        /\ UNCHANGED <<tkvars, resolution_var, disk, ret, cv, dropvars>>

\* the handler without the test of first_path: Path(first_path) is selected
\* even when there is none
_on_drop_unguarded(data) ==
    LET paths == DropPaths(data)
        first_path == IF paths # <<>> THEN paths[1] ELSE <<>>
    IN  /\ Select(PathOf(first_path))
        /\ log' = NoCalls

\* _on_drop (lines 215-250) for event.data = data: what it does to the object
_on_drop(data) ==
    LET paths == DropPaths(data)
        first_path == IF paths # <<>> THEN paths[1] ELSE <<>>
    IN  /\ IF first_path # <<>>
           THEN Select(PathOf(first_path))
           ELSE UNCHANGED <<selected_file_path, duration_var, status_var, run_button>>
        /\ log' = NoCalls

\* a drop on the window
OnDrop ==
    \E data \in DropTexts :
        /\ _on_drop(data)
        /\ UNCHANGED <<tkvars, resolution_var, disk, ret, cv, dropvars>>

\* _on_settings_change (lines 252-254), run after a combobox has set its
\* variable: self holds the texts after the selection
_on_settings_change(self) ==
    /\ aspect_ratio_var' = self.aspect_ratio_var
    /\ base_size_var' = self.base_size_var
    /\ fps_var' = self.fps_var
    /\ pixel_scale_var' = self.pixel_scale_var
    /\ resolution_var' = ResolutionDisplay(self)
    /\ duration_var' = DurationHint(self, selected_file_path)
    /\ log' = NoCalls
    /\ UNCHANGED <<selected_file_path, status_var, run_button, disk, ret, cv, dropvars>>

\* <<ComboboxSelected>> of the aspect ratio box (line 129)
SelectAspect ==
    \E name \in PickedAspects :
        _on_settings_change([Self EXCEPT !.aspect_ratio_var = name])

\* <<ComboboxSelected>> of the base width box (line 140)
SelectBase ==
    \E text \in PickedBases :
        _on_settings_change([Self EXCEPT !.base_size_var = text])

\* <<ComboboxSelected>> of the frame rate box (line 150)
SelectFps ==
    \E text \in PickedFps :
        _on_settings_change([Self EXCEPT !.fps_var = text])

\* <<ComboboxSelected>> of the pixel scale box (line 161)
SelectScale ==
    \E text \in PickedScales :
        _on_settings_change([Self EXCEPT !.pixel_scale_var = text])

\* the frame rate box is editable (lines 143-148: no state="readonly"); typing
\* sets the variable and calls no handler
TypeFps ==
    \E text \in TypedFps :
        /\ fps_var' = text
        /\ UNCHANGED <<aspect_ratio_var, base_size_var, pixel_scale_var>>
        /\ UNCHANGED <<appvars, disk, ret, cv, dropvars>>

\* the log of a Run that called convert_file_to_video with outcome out
ConvertLog(out, dialog) ==
    [dialogs |-> <<dialog>>, opened |-> out.opened, encoded |-> out.encoded,
     written |-> out.written, raised |-> out.exc]

\* _convert without the test of line 307: the open of a missing file raises
_convert_unchecked(path) ==
    \E fault \in Faults :
        LET res == _current_resolution(Self)
            out == ConvertOutcome(path, res[1], res[2], _current_fps(Self),
                                  _current_pixel_scale(Self), fault, FALSE)
        IN  /\ (~Exists(path) => fault = "open")
            /\ disk' = IF out.left = None THEN disk
                       ELSE (out.output_path :> out.left[1]) @@ disk
            /\ IF out.raised
               THEN /\ status_var' = Status("Conversion failed", <<>>)
                    /\ log' = ConvertLog(out, Dialog("showerror", "Conversion failed",
                                                     Message(out.exc, <<>>)))
               ELSE /\ status_var' = Status("Saved", out.output_path)
                    /\ log' = ConvertLog(out, Dialog("showinfo", "Done",
                                                     Message("Video saved to", out.output_path)))

\* _convert with an except clause that passes: a failure ends like a success
_convert_swallowing(path) ==
    IF ~Exists(path)
    THEN /\ log' = [NoCalls EXCEPT
                      !.dialogs = <<Dialog("showerror", "Error", Message("File not found", path))>>]
         /\ UNCHANGED <<status_var, disk>>
    ELSE \E fault \in Faults :
            LET res == _current_resolution(Self)
                out == ConvertOutcome(path, res[1], res[2], _current_fps(Self),
                                      _current_pixel_scale(Self), fault, FALSE)
            IN  /\ disk' = IF out.left = None THEN disk
                           ELSE (out.output_path :> out.left[1]) @@ disk
                /\ status_var' = Status("Saved", out.output_path)
                /\ log' = ConvertLog(out, Dialog("showinfo", "Done",
                                                 Message("Video saved to", out.output_path)))

\* _convert (lines 306-330)
_convert(path) ==
    IF ~Exists(path)
    THEN /\ log' = [NoCalls EXCEPT
                      !.dialogs = <<Dialog("showerror", "Error", Message("File not found", path))>>]
         /\ UNCHANGED <<status_var, disk>>
    ELSE \E fault \in Faults, leaves_partial \in BOOLEAN :
            LET res == _current_resolution(Self)
                out == ConvertOutcome(path, res[1], res[2], _current_fps(Self),
                                      _current_pixel_scale(Self), fault, leaves_partial)
            IN  /\ (fault # "write" => ~leaves_partial)
                /\ disk' = IF out.left = None THEN disk
                           ELSE (out.output_path :> out.left[1]) @@ disk
                /\ IF out.raised
                   THEN /\ status_var' = Status("Conversion failed", <<>>)
                        /\ log' = ConvertLog(out, Dialog("showerror", "Conversion failed",
                                                         Message(out.exc, <<>>)))
                   ELSE /\ status_var' = Status("Saved", out.output_path)
                        /\ log' = ConvertLog(out, Dialog("showinfo", "Done",
                                                         Message("Video saved to", out.output_path)))

\* _on_run (lines 299-304), the command of the Run button: a disabled button
\* (line 191) does not call it
OnRun ==
    /\ run_button = "normal"
    /\ IF selected_file_path = None
       THEN /\ log' = [NoCalls EXCEPT
                         !.dialogs = <<Dialog("showwarning", "No file selected",
                                              Message("Add or drop a file before running.", <<>>))>>]
            /\ UNCHANGED <<status_var, disk>>
       ELSE _convert(selected_file_path[1])
    /\ UNCHANGED <<tkvars, resolution_var, duration_var, selected_file_path, run_button, ret, cv, dropvars>>

\* another program creates, rewrites or deletes a file between two events
DiskChange ==
    \E p \in AppPaths, f \in {NoFile} \cup {OpaqueFile(n) : n \in AppSizes} :
        /\ disk[p] # f
        /\ disk' = [disk EXCEPT ![p] = f]
        /\ UNCHANGED <<tkvars, appvars, ret, cv, dropvars>>

Next ==
    \/ OnAddFile
    \/ OnDrop
    \/ SelectAspect
    \/ SelectBase
    \/ SelectFps
    \/ SelectScale
    \/ TypeFps
    \/ OnRun
    \/ DiskChange

Spec == Init /\ [][Next]_vars

(***************************************************************************)
(* The parameter methods called directly on an object whose Tk variables   *)
(* hold any of the texts below (a StringVar takes any text that is set).   *)
(***************************************************************************)
\* aspect ratio texts: the keys of ASPECT_RATIOS and one that is no key
CfgAspects == Elems(AspectNames) \cup {"3:2"}

\* frame rate texts: the menu, and typed ones (zero, negative, below and at the
\* clamp, above the menu, no number, empty)
CfgFps ==
    FpsMenuTexts \cup TypedFps \cup
    { <<"-", "1">>, <<"0", ".", "0", "0", "1">>, <<"0", ".", "0", "1">>,
      <<"3", "0">>, <<"1", ".", "0">>, <<>> }

\* pixel scale texts: the menu, zero and no number
CfgScales == ScaleMenuTexts \cup {<<"0">>, <<"x">>}

InitCfg ==
    /\ aspect_ratio_var \in CfgAspects
    /\ base_size_var \in BaseMenuTexts
    /\ fps_var \in CfgFps
    /\ pixel_scale_var \in CfgScales
    /\ selected_file_path = None
    /\ duration_var = Dash
    /\ status_var = InitialStatus
    /\ run_button = "disabled"
    /\ disk = [p \in AppPaths |-> NoFile]
    /\ resolution_var = ResolutionDisplay(Self)
    /\ log = NoCalls
    /\ ret = NoRet
    /\ tomato = TomatoStart
    /\ drop = NoDrop
    /\ cv = IdleCall

Returned(fn, value) == [fn |-> fn, value |-> value]

CallCurrentResolution ==
    /\ ret' = Returned("_current_resolution", _current_resolution(Self))
    /\ UNCHANGED <<tkvars, appvars, disk, cv, dropvars>>

CallCurrentFps ==
    /\ ret' = Returned("_current_fps", _current_fps(Self))
    /\ UNCHANGED <<tkvars, appvars, disk, cv, dropvars>>

CallCurrentPixelScale ==
    /\ ret' = Returned("_current_pixel_scale", _current_pixel_scale(Self))
    /\ UNCHANGED <<tkvars, appvars, disk, cv, dropvars>>

NextCfg ==
    \/ CallCurrentResolution
    \/ CallCurrentFps
    \/ CallCurrentPixelScale

SpecCfg == InitCfg /\ [][NextCfg]_vars

(***************************************************************************)
(* convert_file_to_video (app.py 57-86) called directly, statement by      *)
(* statement, on a small file at a small resolution, after the duration    *)
(* estimate of lines 289-294 for the same file and parameters.             *)
(***************************************************************************)
Payloads == UNION {[1..n -> ByteVals] : n \in 0..MaxLen}

NoExtension == <<"a">>

TwoDots == <<"d", "/", "a", ".", "b", ".", "c">>

HiddenFile == <<"/", ".", "b">>

CvPaths == {ReportBin, NoExtension, TwoDots, HiddenFile}

\* frame rates of the direct calls: 0.5 and 2
CvFps == {Rat(1, 2), Rat(2, 1)}

InitConvert ==
    /\ aspect_ratio_var = "16:9"
    /\ base_size_var = Str(BASE_SIZES[2])
    /\ fps_var = Str(FPS)
    /\ pixel_scale_var = Str(PIXEL_SCALES[1])
    /\ selected_file_path = None
    /\ duration_var = Dash
    /\ status_var = InitialStatus
    /\ run_button = "disabled"
    /\ resolution_var = ResolutionDisplay(Self)
    /\ log = NoCalls
    /\ ret = NoRet
    /\ tomato = TomatoStart
    /\ drop = NoDrop
    /\ \E file_path \in CvPaths, width \in 1..MaxWidth, height \in 1..MaxHeight,
          fps \in CvFps, pixel_scale \in 1..MaxScale,
          file \in {NoFile} \cup {DataFile(data) : data \in Payloads} :
            /\ disk = (file_path :> file)
            /\ cv = [pc |-> "estimate", file_path |-> file_path, width |-> width,
                     height |-> height, fps |-> fps, pixel_scale |-> pixel_scale,
                     estimate |-> Dash, data |-> <<>>, frames |-> <<>>, scaled |-> <<>>,
                     written |-> <<>>, result |-> None, exc |-> ""]

\* lines 285-294 for the file and the parameters of the call
CvEstimate ==
    /\ cv.pc = "estimate"
    /\ cv' = [cv EXCEPT
                !.pc = "open",
                !.estimate = IF Exists(cv.file_path)
                             THEN DurationEstimate(disk[cv.file_path].size,
                                                   cv.width, cv.height, cv.fps)
                             ELSE Dash]
    /\ UNCHANGED <<tkvars, appvars, disk, ret, dropvars>>

\* lines 62-63
CvOpen ==
    /\ cv.pc = "open"
    /\ cv' = IF Exists(cv.file_path)
             THEN [cv EXCEPT !.pc = "frames", !.data = disk[cv.file_path].data]
             ELSE [cv EXCEPT !.pc = "raised", !.exc = "FileNotFoundError"]
    /\ UNCHANGED <<tkvars, appvars, disk, ret, dropvars>>

\* line 65
CvFrames ==
    /\ cv.pc = "frames"
    /\ cv' = [cv EXCEPT !.pc = "scale",
                        !.frames = bytes_to_frames(cv.data, cv.width, cv.height)]
    /\ UNCHANGED <<tkvars, appvars, disk, ret, dropvars>>

\* lines 66-71
CvScale ==
    /\ cv.pc = "scale"
    /\ cv' = [cv EXCEPT !.pc = "write",
                        !.scaled = ScaleFrames(cv.frames, cv.pixel_scale)]
    /\ UNCHANGED <<tkvars, appvars, disk, ret, dropvars>>

\* lines 73-86: the clip, the output path, the writer, which returns or raises
CvWrite ==
    /\ cv.pc = "write"
    /\ \E ok \in BOOLEAN :
        LET output_path == OutputPath(cv.file_path)
            call == [path |-> output_path, fps |-> cv.fps, frames |-> cv.scaled]
        IN  /\ cv' = [cv EXCEPT !.pc = IF ok THEN "returned" ELSE "raised",
                                !.written = <<call>>,
                                !.result = IF ok THEN Some(output_path) ELSE None,
                                !.exc = IF ok THEN "" ELSE "write_videofile"]
            /\ disk' = (output_path :> VideoFile(ok)) @@ disk
    /\ UNCHANGED <<tkvars, appvars, ret, dropvars>>

NextConvert ==
    \/ CvEstimate
    \/ CvOpen
    \/ CvFrames
    \/ CvScale
    \/ CvWrite

SpecConvert == InitConvert /\ [][NextConvert]_vars

(***************************************************************************)
(* TomatoApp (glitch_hub/tomato_gui.py): the drop parser and the handlers  *)
(* that choose the input.  The mode and the sliders stay at their values   *)
(* of the start (void, 4, 4, 0.5).                                         *)
(***************************************************************************)
\* lines 30-47 of _parse_drop_paths: the loop over the characters, then the
\* last token
RECURSIVE ParseScan(_, _, _, _)
ParseScan(rest, paths, current, in_brace) ==
    IF rest = <<>>
    THEN IF current # <<>> THEN Append(paths, current) ELSE paths
    ELSE LET ch == Head(rest)
         IN  IF ch = "{" THEN ParseScan(Tail(rest), paths, <<>>, TRUE)
             ELSE IF ch = "}"
             THEN ParseScan(Tail(rest),
                            IF current # <<>> THEN Append(paths, current) ELSE paths,
                            <<>>, FALSE)
             ELSE IF ch = " " /\ ~in_brace
             THEN ParseScan(Tail(rest),
                            IF current # <<>> THEN Append(paths, current) ELSE paths,
                            <<>>, in_brace)
             ELSE ParseScan(Tail(rest), paths, Append(current, ch), in_brace)

\* the loop with a blank taken as a separator inside braces too
RECURSIVE ParseScanSplit(_, _, _)
ParseScanSplit(rest, paths, current) ==
    IF rest = <<>>
    THEN IF current # <<>> THEN Append(paths, current) ELSE paths
    ELSE LET ch == Head(rest)
         IN  IF ch = "{" THEN ParseScanSplit(Tail(rest), paths, <<>>)
             ELSE IF ch \in {"}", " "}
             THEN ParseScanSplit(Tail(rest),
                                 IF current # <<>> THEN Append(paths, current) ELSE paths,
                                 <<>>)
             ELSE ParseScanSplit(Tail(rest), paths, Append(current, ch))

_parse_drop_paths_split(raw_path) == ParseScanSplit(Strip(raw_path), <<>>, <<>>)

\* _parse_drop_paths (lines 25-49)
_parse_drop_paths(raw_path) == ParseScan(Strip(raw_path), <<>>, <<>>, FALSE)

\* str.lower() for the capital letters of the model
LowerChar(ch) ==
    CASE ch = "A" -> "a"
      [] ch = "V" -> "v"
      [] ch = "I" -> "i"
      [] OTHER -> ch

Lower(s) == [i \in 1..Len(s) |-> LowerChar(s[i])]

AviSuffix == <<".", "a", "v", "i">>

\* "-{mode}-f{countframes}-l{positframes}-a{agg_percent}.avi" at the values
\* of the start
DefaultOutputTag ==
    <<"-", "v", "o", "i", "d", "-", "f", "4", "-", "l", "4", "-", "a", "5", "0",
      ".", "a", "v", "i">>

\* _compute_output_path (lines 52-65) as _default_output_path calls it
_default_output_path(input_path) ==
    WithName(input_path, PathName(WithoutSuffix(input_path)) \o DefaultOutputTag)

\* _update_run_state (lines 250-256) for the text of selected_path_var: the
\* state it gives the Run button
_update_run_state(selected_path_var) ==
    IF /\ selected_path_var # None
       /\ Exists(selected_path_var[1])
       /\ Lower(PathSuffix(selected_path_var[1])) = AviSuffix
    THEN "normal"
    ELSE "disabled"

\* _set_selected_path (lines 206-217): the object after the call
_set_selected_path(path) ==
    IF Lower(PathSuffix(path)) # AviSuffix
    THEN [selected_path_var |-> None,
          output_path_var |-> None,
          run_button |-> _update_run_state(None),
          dialogs |-> <<Dialog("showerror", "Invalid file",
                               Message("Please select an .avi file.", <<>>))>>]
    ELSE [selected_path_var |-> Some(path),
          output_path_var |-> Some(_default_output_path(path)),
          run_button |-> _update_run_state(Some(path)),
          dialogs |-> <<>>]

\* TomatoApp._on_drop (lines 226-230) for event.data = data
TomatoApp_on_drop(data) ==
    LET raw_path == Strip(data)
        paths == _parse_drop_paths(raw_path)
    IN  tomato' = IF paths # <<>>
                  THEN _set_selected_path(PathOf(paths[1]))
                  ELSE [tomato EXCEPT !.dialogs = <<>>]

(***************************************************************************)
(* Drop events given to the two windows.  The drag-and-drop layer hands    *)
(* event.data as a list of paths separated by blanks, a path that holds a  *)
(* blank wrapped in braces (app.py 216).                                   *)
(***************************************************************************)
MaxTokens == 2      \* most paths of one drop
MaxTokenLen == 2    \* longest made-up path of a drop, in characters

ClipAvi == <<"/", "d", "/", "c", ".", "a", "v", "i">>

SpacedAvi == <<"/", "d", "/", "a", " ", "b", ".", "A", "V", "I">>

\* the non-empty texts of at most n characters of S
TextsOver(S, n) == UNION {[1..k -> S] : k \in 1..n}

\* paths without a blank, and paths that may hold one
BareTexts == TextsOver({"a"}, MaxTokenLen) \cup {ReportBin, ClipAvi}

BracedTexts == TextsOver({"a", " "}, MaxTokenLen) \cup {SpacedAvi}

DropTokens ==
    {[text |-> t, braced |-> FALSE] : t \in BareTexts}
        \cup {[text |-> t, braced |-> TRUE] : t \in BracedTexts}

TokenLists == UNION {[1..k -> DropTokens] : k \in 0..MaxTokens}

\* a path as the list holds it
TokenText(tok) == IF tok.braced THEN <<"{">> \o tok.text \o <<"}">> ELSE tok.text

RECURSIVE JoinTokens(_, _)
JoinTokens(tokens, sep) ==
    IF tokens = <<>> THEN <<>>
    ELSE IF Len(tokens) = 1 THEN TokenText(tokens[1])
    ELSE TokenText(Head(tokens)) \o sep \o JoinTokens(Tail(tokens), sep)

\* blanks before and after the list, one or two between its paths
Paddings == {<<>>, <<" ">>}

Separators == {<<" ">>, <<" ", " ">>}

\* a drop of a list of paths; app and tomato hold the paths each window's
\* parser found once the window has handled the drop
ListDrop(tokens, lead, sep, trail) ==
    [pc |-> "given", data |-> lead \o JoinTokens(tokens, sep) \o trail,
     listed |-> TRUE, tokens |-> tokens, app |-> None, tomato |-> None]

\* a drop of any other text
RawDrop(data) ==
    [pc |-> "given", data |-> data,
     listed |-> FALSE, tokens |-> <<>>, app |-> None, tomato |-> None]

\* texts without a path: nothing, blanks, empty braces
BlankDrops ==
    { <<>>, <<" ">>, <<" ", " ">>, <<"{", "}">>,
      <<"{", "}", " ", "{", "}">>, <<" ", "{", "}", " ">> }

FirstDrops ==
    {ListDrop(tokens, lead, sep, trail) :
        tokens \in TokenLists, lead \in Paddings, sep \in Separators, trail \in Paddings}
        \cup {RawDrop(data) : data \in BlankDrops}

\* the drops that follow the first one
LaterDrops ==
    {RawDrop(data) : data \in BlankDrops}
        \cup {ListDrop(<<tok>>, <<>>, <<" ">>, <<>>) :
                tok \in {[text |-> ReportBin, braced |-> FALSE],
                         [text |-> ClipAvi, braced |-> FALSE],
                         [text |-> SpacedAvi, braced |-> TRUE]}}

\* both windows just opened, report.bin and c.avi on the disk, a first drop
InitDrop ==
    /\ aspect_ratio_var = "16:9"
    /\ base_size_var = Str(BASE_SIZES[2])
    /\ fps_var = Str(FPS)
    /\ pixel_scale_var = Str(PIXEL_SCALES[1])
    /\ selected_file_path = None
    /\ duration_var = Dash
    /\ status_var = InitialStatus
    /\ run_button = "disabled"
    /\ disk = (ReportBin :> OpaqueFile(27649)) @@ (ClipAvi :> OpaqueFile(0))
                 @@ (SpacedAvi :> NoFile)
    /\ resolution_var = ResolutionDisplay(Self)
    /\ log = NoCalls
    /\ ret = NoRet
    /\ cv = IdleCall
    /\ tomato = TomatoStart
    /\ drop \in FirstDrops

\* the drop reaches DataToVideoApp._on_drop
DropOnApp ==
    /\ drop.pc = "given"
    /\ drop.app = None
    /\ _on_drop(drop.data)
    /\ drop' = [drop EXCEPT !.app = Some(DropPaths(drop.data))]
    /\ UNCHANGED <<tkvars, resolution_var, disk, ret, cv, tomato>>

\* the drop reaches TomatoApp._on_drop
DropOnTomato ==
    /\ drop.pc = "given"
    /\ drop.tomato = None
    /\ TomatoApp_on_drop(drop.data)
    /\ drop' = [drop EXCEPT !.tomato = Some(_parse_drop_paths(Strip(drop.data)))]
    /\ UNCHANGED <<tkvars, appvars, disk, ret, cv>>

\* the user drops again
DropAgain ==
    /\ drop.pc = "given"
    /\ drop.app # None
    /\ drop.tomato # None
    /\ drop' \in LaterDrops
    /\ UNCHANGED <<tkvars, appvars, disk, ret, cv, tomato>>

NextDrop ==
    \/ DropOnApp
    \/ DropOnTomato
    \/ DropAgain

SpecDrop == InitDrop /\ [][NextDrop]_vars

(***************************************************************************)
(* Properties of Run (under Spec).                                         *)
(***************************************************************************)
\* C9: a Run whose selected path does not exist ends with the one error
\* dialog "File not found" for that path: nothing is opened, the encoder and
\* the writer are not called, nothing raises, and the disk and the status
\* stay as they were.
C9_FileNotFound ==
    [][(OnRun /\ selected_file_path # None /\ ~Exists(selected_file_path[1])) =>
        /\ log'.dialogs = <<Dialog("showerror", "Error",
                                   Message("File not found", selected_file_path[1]))>>
        /\ log'.opened = <<>>
        /\ log'.encoded = 0
        /\ log'.written = <<>>
        /\ log'.raised = "none"
        /\ disk' = disk
        /\ status_var' = status_var]_vars

\* a Run has answered File not found for the selected, missing path
C9_Witness ==
    /\ selected_file_path # None
    /\ ~Exists(selected_file_path[1])
    /\ log.dialogs = <<Dialog("showerror", "Error",
                              Message("File not found", selected_file_path[1]))>>
    /\ log.opened = <<>>

\* C10: a Run in which convert_file_to_video raises ends failed: the one
\* dialog is the error "Conversion failed" with the message of the exception,
\* the status is "Conversion failed" and not "Saved", and the file was opened
\* and the writer called at most once.
C10_FailureReported ==
    [][(OnRun /\ log'.raised # "none") =>
        /\ log'.dialogs = <<Dialog("showerror", "Conversion failed",
                                   Message(log'.raised, <<>>))>>
        /\ status_var' = Status("Conversion failed", <<>>)
        /\ status_var'.kind # "Saved"
        /\ Len(log'.opened) = 1
        /\ log'.encoded <= 1
        /\ Len(log'.written) <= 1]_vars

\* the writer was called once, raised, and the Run ended failed
C10_Witness ==
    /\ log.raised = "write"
    /\ Len(log.written) = 1
    /\ status_var = Status("Conversion failed", <<>>)
    /\ log.dialogs = <<Dialog("showerror", "Conversion failed", Message("write", <<>>))>>

(***************************************************************************)
(* Properties of the parameter methods (under SpecCfg).                    *)
(***************************************************************************)
\* the base width a text of the base width menu stands for
MenuWidth(text) ==
    CASE text = <<"1", "2", "8">> -> 128
      [] text = <<"2", "5", "6">> -> 256
      [] text = <<"5", "1", "2">> -> 512
      [] text = <<"1", "0", "2", "4">> -> 1024

\* the ratio pair of an aspect ratio name
RatioPair(name) ==
    CASE name = "1:1" -> <<1, 1>>
      [] name = "4:3" -> <<4, 3>>
      [] name = "16:9" -> <<16, 9>>
      [] name = "9:16" -> <<9, 16>>
      [] OTHER -> <<1, 1>>

\* h is max(1, round(w * rh / rw)): an integer nearest to the quotient, or 1
\* when the quotient is below one half
IsRoundedHeight(h, w, rw, rh) ==
    /\ h >= 1
    /\ \/ 2 * Abs(h * rw - w * rh) <= rw
       \/ h = 1 /\ 2 * w * rh < rw

\* C4: for every aspect ratio name and every base width of the menu
\* _current_resolution returns (base_width, max(1, round(base_width * ratio_h
\* / ratio_w))) for the pair of the name, (1, 1) for a name that has none;
\* nothing else decides the result, and the height is at least 1.
C4_Resolution ==
    ret.fn = "_current_resolution" =>
        LET pair == RatioPair(aspect_ratio_var)
        IN  /\ ret.value[1] = MenuWidth(base_size_var)
            /\ IsRoundedHeight(ret.value[2], MenuWidth(base_size_var), pair[1], pair[2])

\* a name that is no key of ASPECT_RATIOS gives a square
C4_Witness ==
    /\ aspect_ratio_var = "3:2"
    /\ base_size_var = <<"1", "0", "2", "4">>
    /\ ret = Returned("_current_resolution", <<1024, 1024>>)

\* C5 as the spec states it: 16:9 at 512 gives (512, 288), 1:1 at 256 gives
\* (256, 256), 9:16 at 512 gives (512, 911).
C5_Examples911 ==
    ret.fn = "_current_resolution" =>
        /\ (aspect_ratio_var = "16:9" /\ base_size_var = <<"5", "1", "2">>)
              => ret.value = <<512, 288>>
        /\ (aspect_ratio_var = "1:1" /\ base_size_var = <<"2", "5", "6">>)
              => ret.value = <<256, 256>>
        /\ (aspect_ratio_var = "9:16" /\ base_size_var = <<"5", "1", "2">>)
              => ret.value = <<512, 911>>

\* C5, amended: 16:9 at 512 gives (512, 288), 1:1 at 256 gives (256, 256),
\* 9:16 at 512 gives (512, 910), the rounding of 910.22.
C5_Examples ==
    ret.fn = "_current_resolution" =>
        /\ (aspect_ratio_var = "16:9" /\ base_size_var = <<"5", "1", "2">>)
              => ret.value = <<512, 288>>
        /\ (aspect_ratio_var = "1:1" /\ base_size_var = <<"2", "5", "6">>)
              => ret.value = <<256, 256>>
        /\ (aspect_ratio_var = "9:16" /\ base_size_var = <<"5", "1", "2">>)
              => ret.value = <<512, 910>>

C5_Witness ==
    /\ aspect_ratio_var = "9:16"
    /\ base_size_var = <<"5", "1", "2">>
    /\ ret = Returned("_current_resolution", <<512, 910>>)

\* frame rate texts that are no number
NonNumericFps == {<<"a", "b", "c">>, <<>>}

\* frame rate texts that are a number not above zero
NonPositiveFps == {<<"0">>, <<"-", "1">>}

IsPositive(x) == x[1] > 0 /\ x[2] > 0

\* C7 as the spec states it: _current_fps returns a number above zero, and
\* the default FPS = 1 when the text is no number or a number not above zero.
C7_DefaultForNonPositive ==
    ret.fn = "_current_fps" =>
        /\ IsPositive(ret.value)
        /\ fps_var \in NonNumericFps \cup NonPositiveFps => ret.value = <<1, 1>>

\* C7, amended: _current_fps returns a number above zero; the default
\* FPS = 1 when the text is no number, and the lower clamp 0.01 when the text
\* is a number not above zero.
C7_PositiveFps ==
    ret.fn = "_current_fps" =>
        /\ IsPositive(ret.value)
        /\ fps_var \in NonNumericFps => ret.value = <<1, 1>>
        /\ fps_var \in NonPositiveFps => ret.value = <<1, 100>>

\* the text 0 gives 0.01
C7_Witness ==
    /\ fps_var = <<"0">>
    /\ ret = Returned("_current_fps", <<1, 100>>)

(***************************************************************************)
(* Properties of the encoder and the scaler (under SpecConvert).           *)
(***************************************************************************)
\* the direct call has run bytes_to_frames
FramesDone == cv.pc \in {"scale", "write", "returned"} \/ (cv.pc = "raised" /\ cv.written # <<>>)

\* the direct call has handed its frames to the writer
WriterCalled == cv.pc \in {"returned", "raised"} /\ cv.written # <<>>

\* the payload of the direct call: the bytes of the file on the disk
Payload == disk[cv.file_path].data

\* the value the layout rule gives frame k, row r, column c, channel ch
\* (all counted from 0) for payload P
LayoutValue(P, k, r, c, ch) ==
    LET index == k * (cv.width * cv.height * 3) + r * cv.width * 3 + c * 3 + ch
    IN  IF index < Len(P) THEN P[index + 1] ELSE 0

\* C1: every frame of bytes_to_frames(P, W, H) has H rows of W pixels of 3
\* channels, and its value at frame k, row r, column c, channel ch is
\* P[k*W*H*3 + r*W*3 + c*3 + ch] where that index is below len(P), 0 elsewhere.
C1_FrameLayout ==
    FramesDone =>
        \A k \in 1..Len(cv.frames) :
            /\ Len(cv.frames[k]) = cv.height
            /\ \A r \in 1..cv.height :
                /\ Len(cv.frames[k][r]) = cv.width
                /\ \A c \in 1..cv.width :
                    /\ Len(cv.frames[k][r][c]) = 3
                    /\ \A ch \in 1..3 :
                        cv.frames[k][r][c][ch] = LayoutValue(Payload, k - 1, r - 1, c - 1, ch - 1)

\* a payload cut into two frames of two pixels, the second one a non-zero
\* byte of the payload and then padding
C1_Witness ==
    /\ FramesDone
    /\ cv.width = 2 /\ cv.height = 1
    /\ Len(cv.frames) = 2
    /\ Len(Payload) = 7
    /\ Payload[7] # 0
    /\ cv.frames[2][1][1] = <<Payload[7], 0, 0>>
    /\ cv.frames[2][1][2] = <<0, 0, 0>>

\* C2: the number of frames is max(1, ceil(len(P) / (W*H*3))): at least one,
\* enough to hold the payload, and none that the payload does not reach.
C2_FrameCount ==
    FramesDone =>
        LET frame_size == cv.width * cv.height * 3
            n == Len(cv.frames)
        IN  /\ n >= 1
            /\ n * frame_size >= Len(Payload)
            /\ n > 1 => (n - 1) * frame_size < Len(Payload)

\* a payload of exactly two frames gives two frames
C2_Witness ==
    /\ FramesDone
    /\ Len(Payload) = 2 * (cv.width * cv.height * 3)
    /\ Len(cv.frames) = 2

\* C3: the frames handed to the writer are as many as the encoder's, each has
\* H*s rows of W*s pixels of 3 channels, its pixel (r, c) is the source pixel
\* (floor(r/s), floor(c/s)), and for s = 1 they are the encoder's frames.
C3_ScaleBlocks ==
    WriterCalled =>
        LET s == cv.pixel_scale
            out == cv.written[1].frames
        IN  /\ Len(out) = Len(cv.frames)
            /\ \A k \in 1..Len(out) :
                /\ Len(out[k]) = cv.height * s
                /\ \A r \in 0..(cv.height * s - 1) :
                    /\ Len(out[k][r + 1]) = cv.width * s
                    /\ \A c \in 0..(cv.width * s - 1) :
                        /\ Len(out[k][r + 1][c + 1]) = 3
                        /\ out[k][r + 1][c + 1] = cv.frames[k][(r \div s) + 1][(c \div s) + 1]
            /\ s = 1 => out = cv.frames

\* a 2x2 frame whose four pixels differ, written at scale 2 or more
C3_Witness ==
    /\ WriterCalled
    /\ cv.pixel_scale >= 2
    /\ cv.width = 2 /\ cv.height = 2
    /\ Cardinality({cv.frames[1][r][c] : r \in 1..2, c \in 1..2}) = 4
    /\ Len(cv.written[1].frames[1]) = 2 * cv.pixel_scale

\* C6: for an existing file the estimate has frame_count = max(1, ceil(size /
\* (W*H*3))), which is the number of frames bytes_to_frames gives for the
\* file, and seconds = frame_count / fps for the fps of the call.
C6_DurationLaw ==
    FramesDone =>
        LET frame_size == cv.width * cv.height * 3
            size == disk[cv.file_path].size
            est == cv.estimate
        IN  /\ est.frames >= 1
            /\ est.frames * frame_size >= size
            /\ est.frames > 1 => (est.frames - 1) * frame_size < size
            /\ est.frames = Len(cv.frames)
            /\ est.fps = cv.fps
            /\ est.seconds[1] * cv.fps[1] = est.frames * cv.fps[2] * est.seconds[2]

\* three frames at 0.5 fps: six seconds
C6_Witness ==
    /\ FramesDone
    /\ cv.fps = <<1, 2>>
    /\ cv.estimate.frames = 3
    /\ cv.estimate.seconds = <<6, 1>>
    /\ Len(cv.frames) = 3

(***************************************************************************)
(* The output path (under SpecConvert).                                    *)
(***************************************************************************)
\* name has an extension ext: the part from its last point on, which is not
\* its first character and has a character after it
IsExtensionOf(ext, name) ==
    /\ Len(ext) >= 2 /\ Len(ext) < Len(name)
    /\ ext = SubSeq(name, Len(name) - Len(ext) + 1, Len(name))
    /\ ext[1] = "."
    /\ \A i \in 2..Len(ext) : ext[i] # "."

HasExtension(name) == \E n \in 2..Len(name) : IsExtensionOf(SubSeq(name, n, Len(name)), name)

\* out is inp with the last extension of its file name replaced by the tag
IsTaggedPath(out, inp) ==
    \E d \in 0..Len(inp), e \in 0..Len(inp) :
        LET dir == SubSeq(inp, 1, d)
            name == SubSeq(inp, d + 1, Len(inp))
            stem == SubSeq(inp, d + 1, Len(inp) - e)
            ext == SubSeq(inp, Len(inp) - e + 1, Len(inp))
        IN  /\ d + e <= Len(inp)
            /\ d > 0 => inp[d] = "/"
            /\ \A i \in 1..Len(name) : name[i] # "/"
            /\ IF HasExtension(name) THEN IsExtensionOf(ext, name) ELSE e = 0
            /\ out = dir \o stem \o DatamoshTag

ReportDatamosh ==
    <<"/", "d", "/", "r", "e", "p", "o", "r", "t",
      "_", "d", "a", "t", "a", "m", "o", "s", "h", ".", "m", "p", "4">>

\* C8: the path handed to the writer is in the directory of the input and is
\* named as the input without its last extension, followed by _datamosh.mp4,
\* whatever the content, resolution, fps and scale; report.bin gives
\* report_datamosh.mp4.
C8_OutputPath ==
    WriterCalled =>
        /\ IsTaggedPath(cv.written[1].path, cv.file_path)
        /\ cv.file_path = ReportBin => cv.written[1].path = ReportDatamosh
        /\ cv.pc = "returned" => cv.result = Some(cv.written[1].path)

\* a name with two extensions loses the last one only
C8_Witness ==
    /\ WriterCalled
    /\ cv.file_path = TwoDots
    /\ cv.written[1].path = <<"d", "/", "a", ".", "b">> \o DatamoshTag

(***************************************************************************)
(* Properties of the drop handlers (under SpecDrop).                       *)
(***************************************************************************)
\* the paths of a list, in its order, without their braces
ListedPaths(tokens) == [i \in 1..Len(tokens) |-> tokens[i].text]

\* the drop has reached DataToVideoApp._on_drop
AppHandled == drop.pc = "given" /\ drop.app # None

\* the drop has reached TomatoApp._on_drop
TomatoHandled == drop.pc = "given" /\ drop.tomato # None

\* C11: for a drop that is a list of paths separated by blanks, each path
\* free of blanks and braces or wrapped in one pair of braces, the parser in
\* DataToVideoApp._on_drop and _parse_drop_paths give the same list: the
\* paths of the drop, in its order, braces removed and blanks kept.
\* DataToVideoApp then has the first path as its selection whatever follows
\* it, and TomatoApp hands the first path and no other to its selection,
\* which takes it or answers Invalid file.
C11_DropParsers ==
    (drop.pc = "given" /\ drop.listed) =>
        LET expected == ListedPaths(drop.tokens)
        IN  /\ AppHandled =>
                /\ drop.app = Some(expected)
                /\ expected # <<>> =>
                    /\ selected_file_path = Some(expected[1])
                    /\ status_var = Status("Selected", PathName(expected[1]))
                    /\ run_button = "normal"
            /\ TomatoHandled =>
                /\ drop.tomato = Some(expected)
                /\ expected # <<>> =>
                    /\ tomato.selected_path_var \in {None, Some(expected[1])}
                    /\ tomato.selected_path_var = None <=> tomato.dialogs # <<>>
                    /\ expected[1] = ClipAvi => tomato.selected_path_var = Some(ClipAvi)
            /\ (AppHandled /\ TomatoHandled) => drop.app = drop.tomato

\* a path with a blank in braces, then a second path: both parsers give the
\* two paths and both windows take the first
C11_Witness ==
    /\ AppHandled /\ TomatoHandled
    /\ drop.listed
    /\ drop.tokens = <<[text |-> SpacedAvi, braced |-> TRUE],
                       [text |-> ReportBin, braced |-> FALSE]>>
    /\ drop.app = Some(<<SpacedAvi, ReportBin>>)
    /\ drop.tomato = Some(<<SpacedAvi, ReportBin>>)
    /\ selected_file_path = Some(SpacedAvi)
    /\ tomato.selected_path_var = Some(SpacedAvi)

\* a text that holds no path: blanks and empty pairs of braces only
HoldsNoPath(data) ==
    /\ \A i \in 1..Len(data) : data[i] \in {" ", "{", "}"}
    /\ \A i \in 1..Len(data) : data[i] = "{" => (i < Len(data) /\ data[i + 1] = "}")

\* C12: a drop whose text holds no path (nothing, blanks, empty braces) is
\* handled without an error and selects nothing: in DataToVideoApp the
\* selected path, the status, the duration line and the state of the Run
\* button stay as they were and no dialog is shown; in TomatoApp the input,
\* the output and the state of the Run button stay as they were and no
\* dialog is shown.
C12_BlankDropNoOp ==
    [][(drop.pc = "given" /\ HoldsNoPath(drop.data)) =>
        /\ (drop.app = None /\ drop'.app # None) =>
            /\ drop'.app = Some(<<>>)
            /\ UNCHANGED <<selected_file_path, status_var, duration_var, run_button>>
            /\ log'.dialogs = <<>>
            /\ log'.raised = "none"
        /\ (drop.tomato = None /\ drop'.tomato # None) =>
            /\ drop'.tomato = Some(<<>>)
            /\ tomato'.selected_path_var = tomato.selected_path_var
            /\ tomato'.output_path_var = tomato.output_path_var
            /\ tomato'.run_button = tomato.run_button
            /\ tomato'.dialogs = <<>>]_vars

\* c.avi is the selection of both windows with both Run buttons enabled, and
\* a drop of empty braces has been handled by both
C12_Witness ==
    /\ AppHandled /\ TomatoHandled
    /\ drop.data = <<"{", "}">>
    /\ drop.app = Some(<<>>)
    /\ drop.tomato = Some(<<>>)
    /\ selected_file_path = Some(ClipAvi)
    /\ status_var = Status("Selected", <<"c", ".", "a", "v", "i">>)
    /\ run_button = "normal"
    /\ tomato.selected_path_var = Some(ClipAvi)
    /\ tomato.run_button = "normal"

(***************************************************************************)
(* Properties of the window as a whole (under Spec).                       *)
(***************************************************************************)
\* C13: after any events the Run button is enabled exactly when a path is
\* selected; a selected path is replaced but never cleared; and
\* convert_file_to_video is called only by a Run whose selected path exists
\* at that moment, for that path.
C13_RunButton ==
    /\ [](run_button = "normal" <=> selected_file_path # None)
    /\ [][/\ selected_file_path # None => selected_file_path' # None
          /\ (log'.opened # <<>> /\ (log' # log \/ OnRun)) =>
                /\ OnRun
                /\ selected_file_path # None
                /\ Exists(selected_file_path[1])
                /\ log'.opened = <<selected_file_path[1]>>]_vars

\* a Run on the selected, existing file has called the converter and saved
C13_Witness ==
    /\ run_button = "normal"
    /\ selected_file_path = Some(ReportBin)
    /\ log.opened = <<ReportBin>>
    /\ Len(log.written) = 1
    /\ status_var.kind = "Saved"

\* an existing file is selected and the duration line is the estimate for
\* its size and the width, height and fps a Run would pass now
DisplayMatches ==
    /\ selected_file_path # None
    /\ Exists(selected_file_path[1])
    /\ duration_var = DurationHint(Self, selected_file_path)

\* C14: after any selections and changes of the configuration (the frame
\* rate picked from the menu or typed), while an existing file is selected
\* and not modified, the duration line is the estimate for the width, height
\* and fps a Run would pass at that moment: a step that selects an existing
\* file makes it so, and a step that leaves the selected file as it is keeps
\* it so.
C14_DisplayedDuration ==
    [][(/\ selected_file_path' # None
        /\ selected_file_path'[1] \in DOMAIN disk
        /\ disk'[selected_file_path'[1]] # NoFile
        /\ disk'[selected_file_path'[1]] = disk[selected_file_path'[1]]
        /\ (selected_file_path' # selected_file_path \/ DisplayMatches))
            => DisplayMatches']_vars

====
